---- MODULE Spec2Model ----
(***************************************************************************)
(* Model of remove_silence.py: the cut-list builder (create_cut_list),     *)
(* the parallel segment executor (process_segment,                         *)
(* process_chunks_parallel) and the orchestration around them              *)
(* (remove_silence, main).                                                 *)
(*                                                                         *)
(* Times are integer ticks.  External tools (ffmpeg, ffprobe) are black    *)
(* boxes: each invocation is a step whose outcome is chosen                *)
(* nondeterministically.                                                   *)
(***************************************************************************)
EXTENDS Integers, Sequences, FiniteSets, TLC

VARIABLES
    pc,                   \* position of the coordinating thread
    silences,             \* silence_periods returned by detect_silence
    total_duration,       \* result of get_video_duration(input_file)
    min_segment_duration, \* parameter of remove_silence / create_cut_list
    padding,              \* parameter of remove_silence / create_cut_list
    cut_list,             \* create_cut_list: the keep list being built
    last_end,             \* create_cut_list: last_end
    k,                    \* create_cut_list: position of the for loop (1-based)
    max_workers,          \* size of the ThreadPoolExecutor
    unit,                 \* submitted segment units: index (0-based) -> status
    collected,            \* indices whose future was consumed by as_completed
    processed_segments,   \* process_chunks_parallel: processed_segments (paths)
    concat_list,          \* the lines written to concat_list.txt
    artifacts,            \* indices whose segment file exists in temp_dir
    temp_files,           \* temporary files outside the working directory
    cwd,                  \* files of the working directory
    calls,                \* number of invocations of each external call / stage
    err,                  \* the exception propagating, "none" if none
    rs_result,            \* how remove_silence ended: "none", "returned", "raised"
    exit_code,            \* process exit status, -1 while running
    starts,               \* detect_silence: starts (alive until it returns)
    ends,                 \* detect_silence: ends (alive until it returns)
    fault,                \* the first fatal event of the run, "none" if none
    low_disk              \* check_system_requirements saw free_gb < 10

cutVars == <<silences, total_duration, min_segment_duration, padding,
             cut_list, last_end, k>>
poolVars == <<unit, collected, processed_segments, concat_list, artifacts>>
envVars == <<max_workers, temp_files, cwd, calls, err, rs_result, exit_code>>
detVars == <<starts, ends>>
histVars == <<fault, low_disk>>
vars == <<pc, cutVars, poolVars, envVars, detVars, histVars>>

----------------------------------------------------------------------------
(* Bounds of the input enumeration of the cut-list builder.                *)
MaxT == 3
MaxSil == 2
MaxPad == 2
MaxMin == 2

Max(a, b) == IF a >= b THEN a ELSE b
Min(a, b) == IF a <= b THEN a ELSE b

RECURSIVE SeqsUpTo(_, _)
SeqsUpTo(S, n) ==
    IF n = 0 THEN {<<>>}
    ELSE LET shorter == SeqsUpTo(S, n - 1)
         IN  shorter \cup {Append(q, x) : q \in {r \in shorter : Len(r) = n - 1}, x \in S}

----------------------------------------------------------------------------
(* create_cut_list                                                         *)

SegmentStartNoClamp(le, pad) == le - pad

\* segment_start = max(0, last_end - padding)
SegmentStart(le, pad) == Max(0, le - pad)

\* segment_end = max(segment_start, start + padding)
SegmentEnd(ss, start, pad) == Max(ss, start + pad)

\* if segment_end - segment_start >= min_segment_duration
KeepSegment(ss, se, minseg) == se - ss >= minseg

KeepTrailingWholeStream(total, le, minseg) == total >= minseg

\* if total_duration - last_end >= min_segment_duration
KeepTrailing(total, le, minseg) == total - le >= minseg

\* (max(last_end - padding, 0), total_duration)
TrailingSegment(le, pad, total) == <<Max(le - pad, 0), total>>

\* one iteration of "for start, end in silences"
CutLoopStep ==
    /\ pc = "cut_loop"
    /\ k <= Len(silences)
    /\ LET start == silences[k][1]
           end == silences[k][2]
           segment_start == SegmentStart(last_end, padding)
           segment_end == SegmentEnd(segment_start, start, padding)
       IN  /\ cut_list' = IF KeepSegment(segment_start, segment_end, min_segment_duration)
                          THEN Append(cut_list, <<segment_start, segment_end>>)
                          ELSE cut_list
           /\ last_end' = end
    /\ k' = k + 1
    /\ UNCHANGED <<pc, silences, total_duration, min_segment_duration, padding>>
    /\ UNCHANGED <<poolVars, envVars, detVars, histVars>>

\* the statement after the loop, and the return
CutTrailing ==
    /\ pc = "cut_loop"
    /\ k > Len(silences)
    /\ cut_list' = IF KeepTrailing(total_duration, last_end, min_segment_duration)
                   THEN Append(cut_list, TrailingSegment(last_end, padding, total_duration))
                   ELSE cut_list
    /\ pc' = "cut_returned"
    /\ UNCHANGED <<silences, total_duration, min_segment_duration, padding, last_end, k>>
    /\ UNCHANGED <<poolVars, envVars, detVars, histVars>>

----------------------------------------------------------------------------
(* process_segment: the artifact path                                      *)

\* width of the zero-padded index in f"segment_{index:04d}.mp4"
PadWidth == 4

RECURSIVE Digits(_)
Digits(n) == IF n < 10 THEN <<n>> ELSE Append(Digits(n \div 10), n % 10)

RECURSIVE ZeroPad(_, _)
ZeroPad(ds, width) == IF Len(ds) >= width THEN ds ELSE ZeroPad(<<0>> \o ds, width)

\* format(index, "04d") as character codes
FormatIndex(index) == [j \in 1..Len(ZeroPad(Digits(index), PadWidth)) |->
                          48 + ZeroPad(Digits(index), PadWidth)[j]]

\* "segment_" and ".mp4" as character codes
SegmentPrefix == <<115, 101, 103, 109, 101, 110, 116, 95>>
SegmentSuffix == <<46, 109, 112, 52>>

\* temp_output = os.path.join(temp_dir, f"segment_{index:04d}.mp4"); the
\* directory is the same for all segments and is left out
SegmentPath(index) == SegmentPrefix \o FormatIndex(index) \o SegmentSuffix

\* str.__lt__: comparison by code point, a proper prefix is smaller
RECURSIVE StrLess(_, _)
StrLess(a, b) ==
    IF b = <<>> THEN FALSE
    ELSE IF a = <<>> THEN TRUE
    ELSE IF Head(a) # Head(b) THEN Head(a) < Head(b)
    ELSE StrLess(Tail(a), Tail(b))

RECURSIVE InsertSorted(_, _)
InsertSorted(x, sorted) ==
    IF sorted = <<>> THEN <<x>>
    ELSE IF StrLess(x, Head(sorted)) THEN <<x>> \o sorted
    ELSE <<Head(sorted)>> \o InsertSorted(x, Tail(sorted))

\* processed_segments.sort()
RECURSIVE SortPaths(_)
SortPaths(paths) ==
    IF paths = <<>> THEN <<>> ELSE InsertSorted(Head(paths), SortPaths(Tail(paths)))

----------------------------------------------------------------------------
(* main, up to the call of remove_silence                                  *)

\* bounds of the enumerated outputs of the external tools
MaxTime == 9
MaxDetected == 2
MaxCpu == 16

\* remove_silence(..., min_segment_duration=0.1, padding_duration=0.05) in
\* ticks of 0.05 s
MainMinSegment == 2
MainPadding == 1

\* min_silence_duration=0.15, the d= option of silencedetect, in the same
\* ticks: the detector reports no shorter silence
MainMinSilence == 3

WorkerCap == 8
DefaultCpu == 4

\* os.cpu_count(): None (written 0) or a positive count
CpuCounts == {0, 1, 2, MaxCpu}

\* max_workers = min(os.cpu_count() or 4, 8)
MaxWorkers(cpu) == Min(IF cpu = 0 THEN DefaultCpu ELSE cpu, WorkerCap)

Recording == "2024-01-01 10-00-00.mkv"
MergedFile == "merged_input.mp4"
OutputFile == "output_no_silence.mp4"
MergeList == "merge_list.txt"
ConcatFile == "concat_list.txt"

\* files of the working directory matched by the patterns '*.txt', '*.tmp'
TempPatternFiles == {"notes.txt", "scratch.tmp"}

NoCalls == [inputs |-> 0, merge |-> 0, detect |-> 0, probe |-> 0, builder |-> 0,
            segment |-> 0, concat |-> 0, cleanup |-> 0]

Called(name) == [calls EXCEPT ![name] = @ + 1]

NoUnits == [i \in {} |-> "queued"]

\* the first fatal event of a run is the one recorded
FirstFault(event) == IF fault = "none" THEN event ELSE fault

RequirementsAlwaysMet(binaries_found, disk_low) == TRUE

\* the value check_system_requirements returns: False only when running a
\* binary raises FileNotFoundError / SubprocessError; free_gb < 10 is only
\* a warning
RequirementsMet(binaries_found, disk_low) == binaries_found

\* check_system_requirements and "if not check_system_requirements(): return";
\* the disk is looked at only when both binaries were found
CheckSystemRequirements ==
    /\ pc = "check_system"
    /\ \E binaries_found \in BOOLEAN, disk_low \in BOOLEAN :
          /\ ~binaries_found => ~disk_low
          /\ low_disk' = disk_low
          /\ fault' = IF binaries_found THEN fault ELSE FirstFault("binary_missing")
          /\ pc' = IF RequirementsMet(binaries_found, disk_low)
                   THEN "check_inputs" ELSE "main_finally"
    /\ UNCHANGED <<cutVars, poolVars, envVars, detVars>>

\* check_input_files: False when the glob is empty (every globbed file is
\* taken to be readable)
CheckInputFiles ==
    /\ pc = "check_inputs"
    /\ pc' = IF Recording \in cwd THEN "merge" ELSE "main_finally"
    /\ fault' = IF Recording \in cwd THEN fault ELSE FirstFault("no_inputs")
    /\ calls' = Called("inputs")
    /\ UNCHANGED <<cutVars, poolVars, max_workers, temp_files, cwd, err, rs_result, exit_code>>
    /\ UNCHANGED <<detVars, low_disk>>

\* merge_mkv_files and, on success, main up to the call of remove_silence.
\* The list file is written, ffmpeg runs, the list file is removed in the
\* finally block; a failing ffmpeg may leave a partial merged file.
MergeMkvFiles ==
    /\ pc = "merge"
    /\ calls' = Called("merge")
    /\ \E exit_ok \in BOOLEAN, output_exists \in BOOLEAN, cpu \in CpuCounts :
          /\ cwd' = IF output_exists THEN cwd \cup {MergedFile} ELSE cwd
          /\ IF exit_ok /\ output_exists
             THEN /\ pc' = "detect"
                  /\ max_workers' = MaxWorkers(cpu)
             ELSE /\ pc' = "main_finally"
                  /\ max_workers' = max_workers
          /\ fault' = IF exit_ok /\ output_exists THEN fault ELSE FirstFault("merge")
    /\ temp_files' = temp_files \ {MergeList}
    /\ UNCHANGED <<cutVars, poolVars, err, rs_result, exit_code, detVars, low_disk>>

----------------------------------------------------------------------------
(* remove_silence                                                          *)

DetectorTimes == 0..MaxTime

\* the iteration of zip: it takes the next item of each list in turn and
\* stops, without an error, as soon as one of them is exhausted
RECURSIVE ZipIter(_, _)
ZipIter(ss, es) ==
    IF ss = <<>> \/ es = <<>> THEN <<>>
    ELSE <<(<<Head(ss), Head(es)>>)>> \o ZipIter(Tail(ss), Tail(es))

ZipFromLast(ss, es) ==
    [j \in 1..Min(Len(ss), Len(es)) |->
        <<ss[j + Len(ss) - Min(Len(ss), Len(es))], es[j + Len(es) - Min(Len(ss), Len(es))]>>]

\* list(zip(starts, ends))
ZipPairs(ss, es) == ZipIter(ss, es)

\* what the detector can print: silences of at least min_silence_duration
\* in temporal order, possibly with a last silence_start that has no
\* silence_end
DetectedSilences == {iv \in DetectorTimes \X DetectorTimes : iv[2] - iv[1] >= MainMinSilence}

LastEnd(run) == IF run = <<>> THEN 0 ELSE run[Len(run)][2]

RECURSIVE SilenceRuns(_)
SilenceRuns(n) ==
    IF n = 0 THEN {<<>>}
    ELSE LET shorter == SilenceRuns(n - 1)
         IN  shorter \cup UNION {{Append(run, iv) : iv \in {x \in DetectedSilences : LastEnd(run) <= x[1]}} :
                                     run \in {r \in shorter : Len(r) = n - 1}}

DetectorOutputs ==
    UNION {{<<[j \in 1..Len(run) |-> run[j][1]], [j \in 1..Len(run) |-> run[j][2]]>>}
           \cup {<<Append([j \in 1..Len(run) |-> run[j][1]], t), [j \in 1..Len(run) |-> run[j][2]]>> :
                    t \in {x \in DetectorTimes : LastEnd(run) <= x}} :
           run \in SilenceRuns(MaxDetected)}

NeverShortCircuit(sil) == FALSE

\* "if not silences" in remove_silence
NothingToCut(sil) == sil = <<>>

RetryOnFailure(stage) == [pc |-> stage, err |-> "none", rs |-> "none"]

IgnoreToolFailure(stage) ==
    [pc |-> IF stage = "detect" THEN "get_duration" ELSE "cut_loop",
     err |-> "none", rs |-> "none"]

\* the except clauses of detect_silence and get_video_duration: the error
\* is logged, VideoProcessingError is raised and leaves remove_silence
OnToolFailure(stage) ==
    [pc |-> "inner_finally", err |-> "VideoProcessingError", rs |-> "raised"]

\* detect_silence: ffmpeg runs and the two re.findall scan its stderr
DetectSilence ==
    /\ pc = "detect"
    /\ calls' = Called("detect")
    /\ \/ /\ pc' = OnToolFailure("detect").pc
          /\ err' = OnToolFailure("detect").err
          /\ rs_result' = OnToolFailure("detect").rs
          /\ fault' = FirstFault("detect")
          /\ UNCHANGED detVars
       \/ \E out \in DetectorOutputs :
             /\ starts' = out[1]
             /\ ends' = out[2]
             /\ pc' = "detect_zip"
             /\ UNCHANGED <<err, rs_result, fault>>
    /\ UNCHANGED <<cutVars, poolVars, max_workers, temp_files, cwd, exit_code, low_disk>>

\* silence_periods = list(zip(starts, ends))
DetectZip ==
    /\ pc = "detect_zip"
    /\ silences' = ZipPairs(starts, ends)
    /\ pc' = "detect_return"
    /\ UNCHANGED <<total_duration, min_segment_duration, padding, cut_list, last_end, k>>
    /\ UNCHANGED <<poolVars, envVars, detVars, histVars>>

\* "return silence_periods" and, in remove_silence, "if not silences: return"
DetectReturn ==
    /\ pc = "detect_return"
    /\ starts' = <<>>
    /\ ends' = <<>>
    /\ IF NothingToCut(silences)
       THEN pc' = "inner_finally" /\ rs_result' = "returned"
       ELSE pc' = "get_duration" /\ rs_result' = rs_result
    /\ UNCHANGED <<cutVars, poolVars, max_workers, temp_files, cwd, calls, err, exit_code>>
    /\ UNCHANGED histVars

\* the durations ffprobe can report for the stream the detector scanned:
\* no silence ends after the end of the stream
StreamDurations(sil) == {d \in DetectorTimes : \A j \in 1..Len(sil) : sil[j][2] <= d}

\* get_video_duration(input_file) and the call of create_cut_list
GetVideoDuration ==
    /\ pc = "get_duration"
    /\ \/ /\ pc' = OnToolFailure("get_duration").pc
          /\ err' = OnToolFailure("get_duration").err
          /\ rs_result' = OnToolFailure("get_duration").rs
          /\ fault' = FirstFault("probe")
          /\ calls' = Called("probe")
          /\ UNCHANGED total_duration
       \/ \E d \in StreamDurations(silences) :
             /\ total_duration' = d
             /\ pc' = "cut_loop"
             /\ calls' = [calls EXCEPT !.probe = @ + 1, !.builder = @ + 1]
             /\ UNCHANGED <<err, rs_result, fault>>
    /\ cut_list' = <<>>
    /\ last_end' = 0
    /\ k' = 1
    /\ UNCHANGED <<silences, min_segment_duration, padding>>
    /\ UNCHANGED <<poolVars, max_workers, temp_files, cwd, exit_code, detVars, low_disk>>

\* "if not cut_list: return"; otherwise process_chunks_parallel creates the
\* temporary directory and the executor
CheckCutList ==
    /\ pc = "cut_returned"
    /\ IF cut_list = <<>>
       THEN pc' = "inner_finally" /\ rs_result' = "returned"
       ELSE pc' = "submit" /\ rs_result' = rs_result
    /\ UNCHANGED <<cutVars, poolVars, max_workers, temp_files, cwd, calls, err, exit_code>>
    /\ UNCHANGED <<detVars, histVars>>

----------------------------------------------------------------------------
(* process_chunks_parallel                                                 *)

Finished == {"ok", "failed", "raised"}

FutureDoneOnStart(status) == status \in Finished \cup {"running"}

\* a unit's future is done once process_segment has returned or raised,
\* which it does only after subprocess.run has waited for ffmpeg to exit
FutureDone(status) == status \in Finished

Queued == {i \in DOMAIN unit : unit[i] = "queued"}
Running == {i \in DOMAIN unit : unit[i] = "running"}

LeastOf(S) == CHOOSE i \in S : \A j \in S : i <= j

PoolAlive == pc \in {"submit", "as_completed", "pool_exit"}

\* one iteration of "for i, segment in enumerate(cut_list)":
\* executor.submit(process_segment, ...)
SubmitSegment ==
    /\ pc = "submit"
    /\ LET i == Cardinality(DOMAIN unit)
       IN  /\ i < Len(cut_list)
           /\ unit' = [j \in DOMAIN unit \cup {i} |-> IF j = i THEN "queued" ELSE unit[j]]
           /\ pc' = IF i + 1 = Len(cut_list) THEN "as_completed" ELSE pc
    /\ UNCHANGED <<cutVars, collected, processed_segments, concat_list, artifacts, envVars>>
    /\ UNCHANGED <<detVars, histVars>>

UnboundedPool(running, workers) == TRUE

NoWorkerThread(running, workers) == FALSE

\* a worker thread is free: the executor runs at most max_workers threads
WorkerFree(running, workers) == Cardinality(running) < workers

\* a worker thread takes the oldest work item of the queue and starts
\* process_segment (the ffmpeg re-encode) for it
StartSegment ==
    /\ PoolAlive
    /\ Queued # {}
    /\ WorkerFree(Running, max_workers)
    /\ unit' = [unit EXCEPT ![LeastOf(Queued)] = "running"]
    /\ calls' = Called("segment")
    /\ UNCHANGED <<pc, cutVars, collected, processed_segments, concat_list, artifacts>>
    /\ UNCHANGED <<max_workers, temp_files, cwd, err, rs_result, exit_code>>
    /\ UNCHANGED <<detVars, histVars>>

AbortSiblings(u, i, outcome) == [j \in DOMAIN u |->
    IF j = i THEN outcome
    ELSE IF outcome # "ok" /\ u[j] \in {"queued", "running"} THEN "failed" ELSE u[j]]

\* the effect of the end of one unit on the table of units: only the
\* unit's own entry changes
EndUnit(u, i, outcome) == [u EXCEPT ![i] = outcome]

\* process_segment ends: exit status 0 (the path is returned), nonzero
\* (CalledProcessError is caught, None is returned) or another exception,
\* which is stored in the future
FinishSegment(i) ==
    /\ PoolAlive
    /\ i \in Running
    /\ \E outcome \in Finished :
          /\ unit' = EndUnit(unit, i, outcome)
          /\ artifacts' = IF outcome = "ok" THEN artifacts \cup {i} ELSE artifacts
          /\ fault' = IF outcome = "raised" THEN FirstFault("segment") ELSE fault
    /\ UNCHANGED <<pc, cutVars, collected, processed_segments, concat_list, envVars>>
    /\ UNCHANGED <<detVars, low_disk>>

\* one iteration of "for future in as_completed(futures)"
CollectResult(i) ==
    /\ pc = "as_completed"
    /\ i \in DOMAIN unit \ collected
    /\ FutureDone(unit[i])
    /\ collected' = collected \cup {i}
    /\ processed_segments' = IF unit[i] = "ok"
                             THEN Append(processed_segments, SegmentPath(i))
                             ELSE processed_segments
    /\ err' = IF unit[i] = "raised" THEN "SegmentError" ELSE err
    /\ pc' = IF unit[i] = "raised" \/ collected' = DOMAIN unit THEN "pool_exit" ELSE pc
    /\ UNCHANGED <<cutVars, unit, concat_list, artifacts>>
    /\ UNCHANGED <<max_workers, temp_files, cwd, calls, rs_result, exit_code>>
    /\ UNCHANGED <<detVars, histVars>>

\* ThreadPoolExecutor.__exit__: shutdown(wait=True)
AllUnitsDone(u) == {i \in DOMAIN u : ~FutureDone(u[i])} = {}

\* leaving the "with ThreadPoolExecutor" block; with an exception pending
\* the temporary directory is removed and the exception leaves
\* remove_silence
ExitPool ==
    /\ pc = "pool_exit"
    /\ AllUnitsDone(unit)
    /\ IF err = "none"
       THEN /\ pc' = "sort_write"
            /\ UNCHANGED <<artifacts, rs_result>>
       ELSE /\ pc' = "inner_finally"
            /\ artifacts' = {}
            /\ rs_result' = "raised"
    /\ UNCHANGED <<cutVars, unit, collected, processed_segments, concat_list>>
    /\ UNCHANGED <<max_workers, temp_files, cwd, calls, err, exit_code>>
    /\ UNCHANGED <<detVars, histVars>>

\* processed_segments.sort() and the writing of concat_list.txt
SortAndWriteList ==
    /\ pc = "sort_write"
    /\ processed_segments' = SortPaths(processed_segments)
    /\ concat_list' = processed_segments'
    /\ temp_files' = temp_files \cup {ConcatFile}
    /\ pc' = "concat"
    /\ UNCHANGED <<cutVars, unit, collected, artifacts>>
    /\ UNCHANGED <<max_workers, cwd, calls, err, rs_result, exit_code>>
    /\ UNCHANGED <<detVars, histVars>>

\* subprocess.run(concat cmd, check=True), then the temporary directory is
\* removed; a failing ffmpeg may leave a partial output file
RunConcat ==
    /\ pc = "concat"
    /\ calls' = Called("concat")
    /\ \E exit_ok \in BOOLEAN, output_written \in BOOLEAN :
          /\ exit_ok => output_written
          /\ cwd' = IF output_written THEN cwd \cup {OutputFile} ELSE cwd
          /\ IF exit_ok
             THEN pc' = "output_duration" /\ UNCHANGED <<err, rs_result>>
             ELSE pc' = "inner_finally" /\ err' = "CalledProcessError" /\ rs_result' = "raised"
          /\ fault' = IF exit_ok THEN fault ELSE FirstFault("concat")
    /\ artifacts' = {}
    /\ temp_files' = temp_files \ {ConcatFile}
    /\ UNCHANGED <<cutVars, unit, collected, processed_segments, concat_list>>
    /\ UNCHANGED <<max_workers, exit_code, detVars, low_disk>>

\* get_video_duration(output_file) and the statistics
GetOutputDuration ==
    /\ pc = "output_duration"
    /\ calls' = Called("probe")
    /\ \E probe_ok \in BOOLEAN :
          IF ~probe_ok
          THEN err' = "VideoProcessingError" /\ rs_result' = "raised"
               /\ fault' = FirstFault("output_probe")
          ELSE IF total_duration = 0
          THEN err' = "ZeroDivisionError" /\ rs_result' = "raised"
               /\ fault' = FirstFault("statistics")
          ELSE err' = err /\ rs_result' = "returned" /\ fault' = fault
    /\ pc' = "inner_finally"
    /\ UNCHANGED <<cutVars, poolVars, max_workers, temp_files, cwd, exit_code>>
    /\ UNCHANGED <<detVars, low_disk>>

----------------------------------------------------------------------------
(* main after remove_silence, and the module's entry point                 *)

\* the finally block around remove_silence: os.remove(merged_file)
RemoveMerged ==
    /\ pc = "inner_finally"
    /\ cwd' = cwd \ {MergedFile}
    /\ pc' = "main_finally"
    /\ UNCHANGED <<cutVars, poolVars, max_workers, temp_files, calls, err, rs_result, exit_code>>
    /\ UNCHANGED <<detVars, histVars>>

\* what cleanup_temp_files leaves of a directory
AfterCleanup(dir) == dir \ TempPatternFiles

\* the finally block of main: cleanup_temp_files()
CleanupTempFiles ==
    /\ pc = "main_finally"
    /\ cwd' = AfterCleanup(cwd)
    /\ calls' = Called("cleanup")
    /\ pc' = "main_exit"
    /\ UNCHANGED <<cutVars, poolVars, max_workers, temp_files, err, rs_result, exit_code>>
    /\ UNCHANGED <<detVars, histVars>>

\* __main__: main() returned, or raised (cleanup again, sys.exit(1))
MainExit ==
    /\ pc = "main_exit"
    /\ IF err = "none"
       THEN exit_code' = 0 /\ cwd' = cwd /\ calls' = calls
       ELSE exit_code' = 1 /\ cwd' = AfterCleanup(cwd) /\ calls' = Called("cleanup")
    /\ pc' = "done"
    /\ UNCHANGED <<cutVars, poolVars, max_workers, temp_files, err, rs_result>>
    /\ UNCHANGED <<detVars, histVars>>

BeforeRemoveSilence == {"check_system", "check_inputs", "merge"}
InRemoveSilence == {"detect", "detect_zip", "detect_return", "get_duration",
                    "cut_loop", "cut_returned", "output_duration"}
InExecutor == {"submit", "as_completed", "pool_exit"}
InTempDir == {"sort_write", "concat"}

\* where a KeyboardInterrupt raised in the coordinating thread is handled
\* next: the executor's __exit__ (which still joins the workers), the
\* finally block around remove_silence, or the finally block of main
InterruptTarget(at) ==
    IF at \in InExecutor THEN "pool_exit"
    ELSE IF at \in BeforeRemoveSilence THEN "main_finally"
    ELSE "inner_finally"

\* the user interrupts the run: KeyboardInterrupt is no Exception, so only
\* the with / finally blocks act on it until __main__ catches it.  An
\* interrupted merge or concatenation may leave a partial file; the
\* temporary directory and the merge list are removed by their blocks.
Interrupt ==
    /\ pc \in BeforeRemoveSilence \cup InRemoveSilence \cup InExecutor \cup InTempDir
    /\ err = "none"
    /\ err' = "KeyboardInterrupt"
    /\ fault' = FirstFault("interrupt")
    /\ pc' = InterruptTarget(pc)
    /\ rs_result' = IF pc \in BeforeRemoveSilence \/ pc \in InExecutor
                    THEN rs_result ELSE "raised"
    /\ \E partial \in BOOLEAN :
          cwd' = IF partial /\ pc = "merge" THEN cwd \cup {MergedFile}
                 ELSE IF partial /\ pc = "concat" THEN cwd \cup {OutputFile}
                 ELSE cwd
    /\ artifacts' = IF pc \in InTempDir THEN {} ELSE artifacts
    /\ temp_files' = IF pc \in InTempDir THEN temp_files \ {ConcatFile} ELSE temp_files
    /\ starts' = <<>>
    /\ ends' = <<>>
    /\ UNCHANGED <<cutVars, unit, collected, processed_segments, concat_list>>
    /\ UNCHANGED <<max_workers, calls, exit_code, low_disk>>

\* max_workers=4, the default of remove_silence and process_chunks_parallel
DefaultWorkers == 4

InitialDirs == {{}, {Recording} \cup TempPatternFiles}

IdlePool ==
    /\ unit = NoUnits
    /\ collected = {}
    /\ processed_segments = <<>>
    /\ concat_list = <<>>
    /\ artifacts = {}

IdleEnv ==
    /\ max_workers = DefaultWorkers
    /\ temp_files = {}
    /\ calls = NoCalls
    /\ err = "none"
    /\ rs_result = "none"
    /\ exit_code = -1
    /\ starts = <<>>
    /\ ends = <<>>
    /\ fault = "none"
    /\ low_disk = FALSE

Init ==
    /\ pc = "check_system"
    /\ silences = <<>>
    /\ total_duration = 0
    /\ min_segment_duration = MainMinSegment
    /\ padding = MainPadding
    /\ cut_list = <<>>
    /\ last_end = 0
    /\ k = 1
    /\ IdlePool
    /\ IdleEnv
    /\ cwd \in InitialDirs

Next ==
    \/ CheckSystemRequirements
    \/ CheckInputFiles
    \/ MergeMkvFiles
    \/ DetectSilence
    \/ DetectZip
    \/ DetectReturn
    \/ GetVideoDuration
    \/ CutLoopStep
    \/ CutTrailing
    \/ CheckCutList
    \/ SubmitSegment
    \/ StartSegment
    \/ \E i \in DOMAIN unit : FinishSegment(i)
    \/ \E i \in DOMAIN unit : CollectResult(i)
    \/ ExitPool
    \/ SortAndWriteList
    \/ RunConcat
    \/ GetOutputDuration
    \/ RemoveMerged
    \/ CleanupTempFiles
    \/ MainExit
    \/ Interrupt

Spec == Init /\ [][Next]_vars

\* the steps of the program itself: every statement of the coordinating
\* thread runs on, subprocess.run returns once the tool has exited, and
\* the executor's threads run the queued work items
Step ==
    \/ CheckSystemRequirements
    \/ CheckInputFiles
    \/ MergeMkvFiles
    \/ DetectSilence
    \/ DetectZip
    \/ DetectReturn
    \/ GetVideoDuration
    \/ CutLoopStep
    \/ CutTrailing
    \/ CheckCutList
    \/ SubmitSegment
    \/ StartSegment
    \/ \E i \in DOMAIN unit : FinishSegment(i)
    \/ \E i \in DOMAIN unit : CollectResult(i)
    \/ ExitPool
    \/ SortAndWriteList
    \/ RunConcat
    \/ GetOutputDuration
    \/ RemoveMerged
    \/ CleanupTempFiles
    \/ MainExit

\* the run under the assumption that every external invocation returns
\* and the pool's threads are scheduled
FairSpec == Spec /\ WF_vars(Step)

----------------------------------------------------------------------------
(* The collection and sort of process_chunks_parallel in a long run: a     *)
(* cut list of LongRun intervals whose units have all ended, where the     *)
(* units of a few sampled indices succeeded and are still to be collected  *)
(* and all others failed and were collected.                               *)

LongRun == 10002
MaxTracked == 3

SampledIndices == {0, 999, 1000, 1001, 9999, 10000, 10001}

\* LongRun - 1 silences (4j - 2, 4j) and the keep list the builder returns
\* for them with the arguments of main
LongSilences == [j \in 1..(LongRun - 1) |-> <<4 * j - 2, 4 * j>>]
LongTotal == 4 * LongRun - 2
LongCutList == [j \in 1..LongRun |->
                   IF j = 1 THEN <<0, 3>>
                   ELSE IF j = LongRun THEN <<4 * j - 5, LongTotal>>
                   ELSE <<4 * j - 5, 4 * j - 1>>]

SortInit ==
    /\ pc = "as_completed"
    /\ silences = LongSilences
    /\ total_duration = LongTotal
    /\ min_segment_duration = MainMinSegment
    /\ padding = MainPadding
    /\ cut_list = LongCutList
    /\ last_end = 4 * (LongRun - 1)
    /\ k = LongRun
    /\ \E S \in SUBSET SampledIndices :
          /\ S # {}
          /\ Cardinality(S) <= MaxTracked
          /\ unit = [i \in 0..(LongRun - 1) |-> IF i \in S THEN "ok" ELSE "failed"]
          /\ collected = (0..(LongRun - 1)) \ S
          /\ artifacts = S
    /\ processed_segments = <<>>
    /\ concat_list = <<>>
    /\ max_workers = MaxWorkers(MaxCpu)
    /\ temp_files = {}
    /\ cwd = {Recording, MergedFile}
    /\ calls = [inputs |-> 1, merge |-> 1, detect |-> 1, probe |-> 1, builder |-> 1,
                segment |-> LongRun, concat |-> 0, cleanup |-> 0]
    /\ err = "none"
    /\ rs_result = "none"
    /\ exit_code = -1
    /\ starts = <<>>
    /\ ends = <<>>
    /\ fault = "none"
    /\ low_disk = FALSE

SortNext ==
    \/ \E i \in SampledIndices : CollectResult(i)
    \/ ExitPool
    \/ SortAndWriteList

SortSpec == SortInit /\ [][SortNext]_vars

----------------------------------------------------------------------------
(* The cut-list builder called on enumerated arguments.                    *)

Times == 0..MaxT
Intervals == Times \X Times

\* the example of the specification, in ticks of 0.1 s
Example == [silences |-> <<<<20, 30>>>>, total |-> 100, minseg |-> 2, pad |-> 1]
ExampleKeepList == <<<<0, 21>>, <<29, 100>>>>

CutInit ==
    /\ pc = "cut_loop"
    /\ \/ /\ silences \in SeqsUpTo(Intervals, MaxSil)
          /\ total_duration \in Times
          /\ min_segment_duration \in (-1)..MaxMin
          /\ padding \in 0..MaxPad
       \/ /\ silences = Example.silences
          /\ total_duration = Example.total
          /\ min_segment_duration = Example.minseg
          /\ padding = Example.pad
    /\ cut_list = <<>>
    /\ last_end = 0
    /\ k = 1
    /\ IdlePool
    /\ IdleEnv
    /\ cwd = {}

CutNext == CutLoopStep \/ CutTrailing

CutSpec == CutInit /\ [][CutNext]_vars

----------------------------------------------------------------------------
(* The pairing of detect_silence on enumerated findall results: any number *)
(* of silence_start and of silence_end timestamps, in any relation.        *)

MaxStamps == 2

Stamps == SeqsUpTo(Times, MaxStamps)

PairInit ==
    /\ pc = "detect_zip"
    /\ starts \in Stamps
    /\ ends \in Stamps
    /\ silences = <<>>
    /\ total_duration = 0
    /\ min_segment_duration = MainMinSegment
    /\ padding = MainPadding
    /\ cut_list = <<>>
    /\ last_end = 0
    /\ k = 1
    /\ IdlePool
    /\ max_workers = DefaultWorkers
    /\ temp_files = {}
    /\ cwd = {Recording, MergedFile}
    /\ calls = [NoCalls EXCEPT !.inputs = 1, !.merge = 1, !.detect = 1]
    /\ err = "none"
    /\ rs_result = "none"
    /\ exit_code = -1
    /\ fault = "none"
    /\ low_disk = FALSE

PairNext == DetectZip \/ DetectReturn

PairSpec == PairInit /\ [][PairNext]_vars

----------------------------------------------------------------------------
(* Properties of the cut-list builder.                                     *)

\* the precondition of the builder's contract: start < end, temporally
\* ordered, pairwise non-overlapping, inside [0, total]
OrderedSilences(sil, total) ==
    /\ \A i \in 1..Len(sil) : 0 <= sil[i][1] /\ sil[i][1] < sil[i][2] /\ sil[i][2] <= total
    /\ \A i \in 1..(Len(sil) - 1) : sil[i][2] <= sil[i + 1][1]

CutReturned == pc = "cut_returned"

RECURSIVE SumDurations(_)
SumDurations(cl) ==
    IF cl = <<>> THEN 0 ELSE (Head(cl)[2] - Head(cl)[1]) + SumDurations(Tail(cl))

\* C1: for ordered, non-overlapping silences inside [0, total], padding >= 0
\* and min_segment_duration >= 0, the returned keep list is non-overlapping
\* and strictly increasing in start time.
C1_KeepListNonOverlapping ==
    (CutReturned /\ OrderedSilences(silences, total_duration)
        /\ padding >= 0 /\ min_segment_duration >= 0)
    => \A i \in 1..(Len(cut_list) - 1) :
          /\ cut_list[i + 1][1] >= cut_list[i][2]
          /\ cut_list[i + 1][1] > cut_list[i][1]

\* C2: every interval of the keep list, the trailing one included, has
\* end - start >= min_segment_duration, at every point of the construction.
C2_MinDuration ==
    \A i \in 1..Len(cut_list) : cut_list[i][2] - cut_list[i][1] >= min_segment_duration

\* a returned keep list whose trailing interval was appended after a loop
\* that dropped one of two candidates
C2_Witness ==
    /\ CutReturned
    /\ Len(silences) = 2
    /\ Len(cut_list) = 2
    /\ total_duration - last_end >= min_segment_duration
    /\ cut_list[2][2] = total_duration
    /\ min_segment_duration > 0

\* the scan as documented: keep [max(0, lastEnd - padding),
\* max(thatStart, s + padding)] when long enough, then the trailing interval
RECURSIVE RefScan(_, _, _, _, _)
RefScan(sil, lastEnd, total, minseg, pad) ==
    IF sil = <<>>
    THEN IF total - lastEnd >= minseg
         THEN <<(<<(IF lastEnd - pad > 0 THEN lastEnd - pad ELSE 0), total>>)>>
         ELSE <<>>
    ELSE LET s == Head(sil)[1]
             e == Head(sil)[2]
             cs == IF lastEnd - pad > 0 THEN lastEnd - pad ELSE 0
             ce == IF s + pad > cs THEN s + pad ELSE cs
             rest == RefScan(Tail(sil), e, total, minseg, pad)
         IN  IF ce - cs >= minseg THEN <<(<<cs, ce>>)>> \o rest ELSE rest

IsExample ==
    /\ silences = Example.silences
    /\ total_duration = Example.total
    /\ min_segment_duration = Example.minseg
    /\ padding = Example.pad

\* C3: the returned keep list equals the documented linear scan, and for
\* silences [(2.0, 3.0)], total 10.0, minimum 0.2, padding 0.1 it is
\* exactly [(0.0, 2.1), (2.9, 10.0)].
C3_PaddedComplement ==
    CutReturned =>
        /\ cut_list = RefScan(silences, 0, total_duration, min_segment_duration, padding)
        /\ IsExample => cut_list = ExampleKeepList

C3_Witness == CutReturned /\ IsExample /\ cut_list = ExampleKeepList

\* C4: for ordered, non-overlapping silences inside [0, total] and
\* padding >= 0, the durations of the keep intervals sum to at most total.
C4_KeptAtMostTotal ==
    (CutReturned /\ OrderedSilences(silences, total_duration) /\ padding >= 0)
    => SumDurations(cut_list) <= total_duration

----------------------------------------------------------------------------
(* Properties of remove_silence and process_chunks_parallel.               *)

\* detect_silence returned, and returned the empty list
DetectedNothing ==
    /\ calls.detect = 1
    /\ pc \notin {"detect_zip", "detect_return"}
    /\ silences = <<>>
    /\ fault = "none"

\* C5: when silence detection returns an empty list, the cut-list builder,
\* the segment executor and the concatenation are never invoked, no output
\* file is written and remove_silence returns without raising.
C5_NothingToCut ==
    DetectedNothing =>
        /\ calls.builder = 0
        /\ calls.segment = 0
        /\ calls.concat = 0
        /\ unit = NoUnits
        /\ OutputFile \notin cwd
        /\ rs_result = "returned"
        /\ err = "none"

C5_Witness == pc = "done" /\ DetectedNothing /\ exit_code = 0

Succeeded == {i \in DOMAIN unit : unit[i] = "ok"}

Range(q) == {q[j] : j \in 1..Len(q)}

\* the state in which the concatenation list has been written
ListWritten == pc = "concat"

HandedOverSucceeded ==
    ListWritten =>
        /\ DOMAIN unit = 0..(Len(cut_list) - 1)
        /\ \A i \in DOMAIN unit : unit[i] \in {"ok", "failed"}
        /\ calls.segment = Len(cut_list)
        /\ Range(concat_list) = {SegmentPath(i) : i \in Succeeded}
        /\ Len(concat_list) = Cardinality(Succeeded)
        /\ artifacts = Succeeded

FailureLeavesSiblings ==
    \A i \in DOMAIN unit :
        (unit[i] = "running" /\ unit'[i] = "failed")
        => \A j \in DOMAIN unit \ {i} : unit'[j] = unit[j]

\* C6: a unit whose re-encode exits nonzero changes no sibling unit, every
\* submitted unit runs to completion, the failed index yields no artifact,
\* and the list handed to the concatenation is exactly the succeeded indices.
C6_FailureIsolated == [][FailureLeavesSiblings]_vars /\ []HandedOverSucceeded

\* three keep intervals of which only the second fails: the list is built
\* from the first and the third artifact
C6_Witness ==
    /\ ListWritten
    /\ Len(cut_list) = 3
    /\ unit[0] = "ok" /\ unit[1] = "failed" /\ unit[2] = "ok"
    /\ concat_list = <<SegmentPath(0), SegmentPath(2)>>

RECURSIVE AscendingPaths(_)
AscendingPaths(S) ==
    IF S = {} THEN <<>>
    ELSE <<SegmentPath(LeastOf(S))>> \o AscendingPaths(S \ {LeastOf(S)})

\* C7: whatever the completion order and the length of the cut list, the
\* paths written to the concatenation list are in ascending index order.
C7_ListInIndexOrder == ListWritten => concat_list = AscendingPaths(Succeeded)

\* the stages after the parallel stage: the list is written, the
\* concatenation is started
ConcatenationBegun ==
    \/ pc \in {"sort_write", "concat", "output_duration"}
    \/ ConcatFile \in temp_files
    \/ calls.concat > 0

\* C8: the concatenation list is written and the concatenation is started
\* only after every submitted segment unit has ended; no unit is pending or
\* in flight at that point.
C8_JoinBarrier ==
    ConcatenationBegun =>
        /\ DOMAIN unit = 0..(Len(cut_list) - 1)
        /\ \A i \in DOMAIN unit : unit[i] \in Finished

\* the concatenation has run after a parallel stage of three units
C8_Witness == calls.concat = 1 /\ Cardinality(DOMAIN unit) = 3 /\ Succeeded # {}

\* C9: the number of re-encodes in flight never exceeds max_workers, and
\* max_workers, as main computes it, is between 1 and 8.
C9_BoundedParallelism ==
    /\ Cardinality(Running) <= max_workers
    /\ max_workers >= 1
    /\ max_workers <= WorkerCap

\* the pool is saturated: max_workers units in flight and one waiting
C9_Witness == Cardinality(Running) = max_workers /\ Queued # {}

\* the builder returned an empty cut list
EmptyCutList == calls.builder = 1 /\ pc # "cut_loop" /\ cut_list = <<>>

\* every unit has ended and none succeeded
NoArtifactSurvived ==
    /\ unit # NoUnits
    /\ pc \notin {"submit", "as_completed", "pool_exit"}
    /\ Succeeded = {}

\* C10: when the cut list is empty or no artifact survives, the run ends
\* with an error propagated to the caller and never completes normally,
\* and the concatenation is not run on an empty list.
C10_ZeroArtifactsFatal ==
    /\ (pc = "done" /\ (EmptyCutList \/ NoArtifactSurvived))
          => (rs_result = "raised" /\ err # "none" /\ exit_code # 0)
    /\ calls.concat > 0 => concat_list # <<>>

----------------------------------------------------------------------------
(* Properties of main and of the module's entry point.                     *)

ProcessEnded == pc = "done"

\* the run hit a fatal event: a missing binary, no input, a failed merge,
\* detection, duration query or concatenation, or an interrupt
RunFailed == fault # "none"

\* C11: the process exits 0 only when the run succeeded; every fatal error
\* and every interrupt ends it with a nonzero status, and
\* cleanup_temp_files has run before the process exits.
C11_ExitStatus ==
    ProcessEnded =>
        /\ RunFailed => exit_code # 0
        /\ exit_code = 0 => ~RunFailed
        /\ calls.cleanup >= 1

\* none of input discovery, merge, detection, segment execution and
\* concatenation has been started
NoWorkStarted ==
    /\ calls.inputs = 0
    /\ calls.merge = 0
    /\ calls.detect = 0
    /\ calls.segment = 0
    /\ calls.concat = 0
    /\ unit = NoUnits

StoppedAtPrerequisites == pc \in {"main_finally", "main_exit", "done"} /\ NoWorkStarted

\* C12 as stated: when a required binary is absent or the free disk space
\* is below 10 GB, the run stops at the prerequisite check and no later
\* stage is ever started.
C12_PrerequisiteAborts ==
    (fault = "binary_missing" \/ low_disk) => StoppedAtPrerequisites

\* C12, amended: when a required binary is absent the run stops at the
\* prerequisite check and no later stage is ever started; free disk space
\* below 10 GB is only logged and the run goes on.
C12_MissingBinaryAborts ==
    /\ fault = "binary_missing" => StoppedAtPrerequisites
    /\ (low_disk /\ pc = "check_inputs") => (fault = "none" /\ err = "none")

C12_Witness == ProcessEnded /\ fault = "binary_missing" /\ calls.cleanup = 1

\* C13: whenever a run fails, at whichever stage, then at process end no
\* temporary list file, no segment artifact and no merged intermediate
\* file remains, and the originating error has been propagated.
C13_CleanupOnFailure ==
    (ProcessEnded /\ RunFailed) =>
        /\ temp_files = {}
        /\ artifacts = {}
        /\ MergedFile \notin cwd
        /\ err # "none"

NoLaterStage ==
    /\ calls.builder = 0
    /\ calls.segment = 0
    /\ calls.concat = 0
    /\ unit = NoUnits
    /\ pc \in {"inner_finally", "main_finally", "main_exit", "done"}

\* C14: when the silence-detection call or the duration query fails, the
\* external call has been made exactly once, a VideoProcessingError is
\* raised and leaves remove_silence, and neither the cut-list builder nor
\* the segment execution nor the concatenation is started.
C14_ToolFailureAborts ==
    /\ fault = "detect" =>
          /\ calls.detect = 1 /\ calls.probe = 0
          /\ err = "VideoProcessingError" /\ rs_result = "raised"
          /\ NoLaterStage
    /\ fault = "probe" =>
          /\ calls.detect = 1 /\ calls.probe = 1
          /\ err = "VideoProcessingError" /\ rs_result = "raised"
          /\ NoLaterStage

\* the duration query failed after a detection that found silences
C14_Witness ==
    /\ ProcessEnded /\ fault = "probe" /\ silences # <<>>
    /\ exit_code = 1 /\ MergedFile \notin cwd

\* C15: for m silence-start and n silence-end timestamps detect_silence
\* returns exactly min(m, n) intervals, the i-th being (starts[i], ends[i]);
\* an unmatched trailing silence-start is dropped without an error.
C15_ParserPairing ==
    pc = "detect_return" =>
        /\ Len(silences) = Min(Len(starts), Len(ends))
        /\ \A i \in 1..Len(silences) : silences[i] = <<starts[i], ends[i]>>
        /\ err = "none"
        /\ fault = "none"

\* the stream ended during a silence: one more start than ends
C15_Witness ==
    /\ pc = "detect_return"
    /\ Len(starts) = Len(ends) + 1
    /\ Len(silences) = Len(ends)
    /\ Len(ends) >= 1
    /\ starts[1] # starts[2]

\* the stage a position of the coordinating thread belongs to: 1 the
\* prerequisite check, 2 input discovery, 3 merge, 4 silence detection,
\* 5 duration query, 6 cut-list building, 7 segment execution,
\* 8 concatenation, 9 statistics; 10 once no stage is left to run
StageOf(at) ==
    CASE at = "check_system" -> 1
      [] at = "check_inputs" -> 2
      [] at = "merge" -> 3
      [] at \in {"detect", "detect_zip", "detect_return"} -> 4
      [] at = "get_duration" -> 5
      [] at \in {"cut_loop", "cut_returned"} -> 6
      [] at \in InExecutor -> 7
      [] at \in InTempDir -> 8
      [] at = "output_duration" -> 9
      [] OTHER -> 10

NoStageLeft(at) == StageOf(at) = StageOf("done")

StageStep ==
    \/ StageOf(pc') = StageOf(pc)
    \/ NoStageLeft(pc')
    \/ /\ StageOf(pc') = StageOf(pc) + 1
       /\ fault = "none" /\ fault' = "none"
       /\ err = "none" /\ err' = "none"

\* C16: the stages begin only in the order prerequisite check, input
\* discovery, merge, detection, duration query, cut-list building, segment
\* execution, concatenation, statistics; a stage begins only when the one
\* before it completed without a failure, none is entered twice, and after
\* a failure no further stage begins.
C16_SequentialStages == [][StageStep]_vars

\* a run that went through all nine stages
C16_Witness ==
    /\ ProcessEnded /\ ~RunFailed /\ exit_code = 0
    /\ calls.concat = 1 /\ calls.probe = 2 /\ rs_result = "returned"

----------------------------------------------------------------------------
(* Further properties of the cut-list builder.                             *)

LeadingSilence == silences # <<>> /\ silences[1][1] = 0

\* C17: when the first silence starts at 0, with padding >= 0 and
\* min_segment_duration > 0, the leading candidate is dropped: the keep
\* list has no interval that begins at 0 and lies inside that silence.
C17_LeadingSilenceDropped ==
    (CutReturned /\ OrderedSilences(silences, total_duration) /\ LeadingSilence
        /\ padding >= 0 /\ min_segment_duration > 0)
    => \A i \in 1..Len(cut_list) :
          ~(cut_list[i][1] = 0 /\ cut_list[i][2] <= silences[1][2])

\* C18: for ordered silences inside [0, total], padding >= 0 and
\* min_segment_duration > 0, every keep interval (start, end) satisfies
\* 0 <= start < end <= total.
C18_OnTimeline ==
    (CutReturned /\ OrderedSilences(silences, total_duration)
        /\ padding >= 0 /\ min_segment_duration > 0)
    => \A i \in 1..Len(cut_list) :
          /\ 0 <= cut_list[i][1]
          /\ cut_list[i][1] < cut_list[i][2]
          /\ cut_list[i][2] <= total_duration

----------------------------------------------------------------------------
(* Frame of the cleanup, and termination.                                  *)

\* the working directory held the recording and the user's own *.txt and
\* *.tmp files when the run began (nothing ever removes the recording)
StartedInUserDir == Recording \in cwd

SucceededRun ==
    ProcessEnded /\ ~RunFailed /\ calls.concat = 1 /\ rs_result = "returned"

\* C19: the cleanup at the end of a run removes only intermediates of that
\* run: the output of a successful run, the recordings and the files that
\* were in the working directory before the run, unrelated *.txt and *.tmp
\* files included, are left as they were.
C19_CleanupFrame ==
    /\ StartedInUserDir => TempPatternFiles \subseteq cwd
    /\ SucceededRun => OutputFile \in cwd

EveryUnitEnded == \A i \in DOMAIN unit : unit[i] \in Finished

\* C20: when every external invocation returns and the pool's threads are
\* scheduled, every run ends: all submitted units have ended, the pool is
\* joined and main has returned or raised, with exit status 0 or 1.
C20_Termination == <>(ProcessEnded /\ EveryUnitEnded /\ exit_code \in {0, 1})

\* a run of three units that was interrupted while the pool was working,
\* and still joined all three units before it ended
C20_Witness ==
    /\ ProcessEnded
    /\ fault = "interrupt"
    /\ Cardinality(DOMAIN unit) = 3
    /\ EveryUnitEnded
    /\ exit_code = 1

====
